---- MODULE Spec2Model ----
(***************************************************************************)
(* Streaming chat session core of react-chatbot-openai:                    *)
(*   - the useChatbot hook (src/src/hooks/useChatbot.tsx): message list,   *)
(*     loading flag, abort controller, localStorage snapshot;              *)
(*   - the OpenAI provider (src/src/provider/openaiProvider.tsx): the      *)
(*     model-visible history and the ReadableStream producer.              *)
(*                                                                         *)
(* Scheduling.  JavaScript runs each job to completion: a network event    *)
(* (the completion call settling, a chunk arriving, the stream ending)     *)
(* runs the provider's code and, through resolved promises, the hook's     *)
(* continuation in the same job, so a user event (send, abort, clear) or a *)
(* timer never falls between the provider enqueuing a fragment and the     *)
(* hook applying it.  One action of the model is one such job.  React      *)
(* applies queued state updates in the order they were queued, so the      *)
(* message list is modelled as updated at the call.                        *)
(*                                                                         *)
(* A state updater that throws (the chunk updater reading last.role on an  *)
(* empty list) raises the exception in the rendering layer: crashed        *)
(* records it, the update is lost and the interface takes no further user  *)
(* operation, while the asynchronous sendMessage call in flight, the       *)
(* provider and the timers run on.                                         *)
(*                                                                         *)
(* A text is a sequence of fragments (strings); concatenation is \o.       *)
(***************************************************************************)
EXTENDS Integers, Sequences, FiniteSets, TLC

----------------------------------------------------------------------------
(* Bounds *)

limit == 2          \* config.limit
MaxOps == 2         \* user operations (send, abort, clear) in a run
MaxChunks == 2      \* content fragments one stream delivers
MaxCalls == 3       \* direct calls on the store and the provider

----------------------------------------------------------------------------
(* Texts *)

UserTexts == {<<"hi">>}
Chunks == {<<"Hel">>, <<" ">>}
SystemPrompts == {<<>>, <<"be brief">>}

\* String.prototype.trim(): a text is blank when it holds only white space
trim(content) == SelectSeq(content, LAMBDA f : f # " ")

LimitText == "Limite de mensagens atingido"
EmptyText == "Nenhuma resposta foi gerada pelo modelo"
AbortText == "Request aborted by user"
FetchText == "Failed to fetch"
QuotaText == "You exceeded your current quota, please check your plan and billing details."
CancelNotice == "Mensagem cancelada. Voce pode enviar uma nova mensagem."

\* texts of failures of the completion service and of the transport
KeyRawText == "Incorrect API key provided. You can find your API key at https://platform.openai.com/account/api-keys."
KeyCodeText == "401 invalid_api_key"
RateRawText == "Rate limit reached for requests"
RateUrlText == "Rate limit reached. Visit https://platform.openai.com/account/rate-limits to learn more."
NetworkRawText == "NetworkError when attempting to fetch resource."
TimeoutRawText == "timeout of 30000ms exceeded"
ModelRawText == "The model gpt-x does not exist or you do not have access to it."
ServerAbortText == "Request was aborted."
UnknownRawText == "Connection error."

ProviderQuotaText == "Cota de uso da OpenAI foi excedida. Verifique seu plano ou aguarde."
ProviderRateText == "Muitas requisicoes. Aguarde um momento antes de tentar novamente."
ProviderKeyText == "Chave de API invalida. Verifique sua OPENAI_API_KEY."
ProviderUnknownText == "Erro desconhecido ao processar mensagem com OpenAI."

\* String.prototype.toLowerCase() on the texts of the model
toLowerCase(s) ==
  CASE s = LimitText -> "limite de mensagens atingido"
    [] s = EmptyText -> "nenhuma resposta foi gerada pelo modelo"
    [] s = AbortText -> "request aborted by user"
    [] s = FetchText -> "failed to fetch"
    [] s = QuotaText -> "you exceeded your current quota, please check your plan and billing details."
    [] s = ProviderQuotaText -> "cota de uso da openai foi excedida. verifique seu plano ou aguarde."
    [] s = ProviderRateText -> "muitas requisicoes. aguarde um momento antes de tentar novamente."
    [] s = ProviderKeyText -> "chave de api invalida. verifique sua openai_api_key."
    [] s = ProviderUnknownText -> "erro desconhecido ao processar mensagem com openai."
    [] s = KeyRawText -> "incorrect api key provided. you can find your api key at https://platform.openai.com/account/api-keys."
    [] s = KeyCodeText -> "401 invalid_api_key"
    [] s = RateRawText -> "rate limit reached for requests"
    [] s = RateUrlText -> "rate limit reached. visit https://platform.openai.com/account/rate-limits to learn more."
    [] s = NetworkRawText -> "networkerror when attempting to fetch resource."
    [] s = TimeoutRawText -> "timeout of 30000ms exceeded"
    [] s = ModelRawText -> "the model gpt-x does not exist or you do not have access to it."
    [] s = ServerAbortText -> "request was aborted."
    [] s = UnknownRawText -> "connection error."
    [] OTHER -> s

\* the needles of the two classifiers that occur in a text (case-sensitive)
Needles(s) ==
  CASE s = "limite de mensagens atingido" -> {"limite de mensagens atingido"}
    [] s = EmptyText -> {"model"}
    [] s = "nenhuma resposta foi gerada pelo modelo" -> {"model"}
    [] s = AbortText -> {"aborted"}
    [] s = "request aborted by user" -> {"request aborted", "aborted"}
    [] s = "failed to fetch" -> {"failed to fetch"}
    [] s = QuotaText -> {"quota"}
    [] s = "you exceeded your current quota, please check your plan and billing details." -> {"quota"}
    [] s = "chave de api invalida. verifique sua openai_api_key." -> {"api_key"}
    [] s = "incorrect api key provided. you can find your api key at https://platform.openai.com/account/api-keys." -> {"api key"}
    [] s = "401 invalid_api_key" -> {"api_key"}
    [] s = "rate limit reached for requests" -> {"rate"}
    [] s = RateUrlText -> {"rate"}
    [] s = "rate limit reached. visit https://platform.openai.com/account/rate-limits to learn more." -> {"rate"}
    [] s = "networkerror when attempting to fetch resource." -> {"network"}
    [] s = "timeout of 30000ms exceeded" -> {"timeout"}
    [] s = ModelRawText -> {"model", "does not exist"}
    [] s = "the model gpt-x does not exist or you do not have access to it." -> {"model", "does not exist"}
    [] s = ServerAbortText -> {"aborted"}
    [] s = "request was aborted." -> {"aborted"}
    [] OTHER -> {}

\* String.prototype.includes()
includes(s, needle) == needle \in Needles(s)

\* a thrown value: an Error with a message, or something that is no Error
Err(text) == [isError |-> TRUE, name |-> "Error", message |-> text]
NotAnError == [isError |-> FALSE, name |-> "", message |-> ""]
\* what the completion call or the response stream may throw
RawErrors == {[Err(FetchText) EXCEPT !.name = "TypeError"], Err(QuotaText)}
\* the reason given to abort(): a string, not an Error
AbortReason == NotAnError

\* faulty variant: the message is not lower-cased
getErrorMessageCaseSensitive(error) ==
  IF error.isError
  THEN LET message == error.message IN
       IF includes(message, "api key") \/ includes(message, "api_key")
       THEN "Chave de API da OpenAI invalida. Verifique sua OPENAI_API_KEY no arquivo .env"
       ELSE IF includes(message, "quota") \/ includes(message, "insufficient_quota")
       THEN "Cota de uso da OpenAI foi excedida. Verifique seu plano ou adicione creditos."
       ELSE IF includes(message, "rate")
       THEN "Muitas requisicoes. Aguarde um momento antes de tentar novamente."
       ELSE IF includes(message, "failed to fetch") \/ includes(message, "network")
       THEN "Erro de conexao. Verifique sua internet e tente novamente."
       ELSE IF includes(message, "limite de mensagens atingido")
       THEN "Voce atingiu o limite de mensagens desta conversa. Limpe o chat para continuar."
       ELSE IF includes(message, "request aborted") \/ includes(message, "aborted")
       THEN "Mensagem cancelada pelo usuario."
       ELSE IF includes(message, "timeout")
       THEN "A requisicao demorou muito para responder. Tente novamente."
       ELSE IF includes(message, "model") /\ includes(message, "does not exist")
       THEN "Modelo especificado nao existe ou voce nao tem acesso a ele."
       ELSE error.message
  ELSE "Ocorreu um erro inesperado. Tente novamente."

\* getErrorMessage(error)
getErrorMessage(error) ==
  IF error.isError
  THEN LET message == toLowerCase(error.message) IN
       IF includes(message, "api key") \/ includes(message, "api_key")
       THEN "Chave de API da OpenAI invalida. Verifique sua OPENAI_API_KEY no arquivo .env"
       ELSE IF includes(message, "quota") \/ includes(message, "insufficient_quota")
       THEN "Cota de uso da OpenAI foi excedida. Verifique seu plano ou adicione creditos."
       ELSE IF includes(message, "rate")
       THEN "Muitas requisicoes. Aguarde um momento antes de tentar novamente."
       ELSE IF includes(message, "failed to fetch") \/ includes(message, "network")
       THEN "Erro de conexao. Verifique sua internet e tente novamente."
       ELSE IF includes(message, "limite de mensagens atingido")
       THEN "Voce atingiu o limite de mensagens desta conversa. Limpe o chat para continuar."
       ELSE IF includes(message, "request aborted") \/ includes(message, "aborted")
       THEN "Mensagem cancelada pelo usuario."
       ELSE IF includes(message, "timeout")
       THEN "A requisicao demorou muito para responder. Tente novamente."
       ELSE IF includes(message, "model") /\ includes(message, "does not exist")
       THEN "Modelo especificado nao existe ou voce nao tem acesso a ele."
       ELSE error.message
  ELSE "Ocorreu um erro inesperado. Tente novamente."

----------------------------------------------------------------------------
(* Messages *)

Message(role, content, error) == [role |-> role, content |-> content, error |-> error]
UserMessage(text) == Message("user", text, FALSE)
BotMessage(content) == Message("assistant", content, FALSE)
ErrorMessage(text) == Message("error", <<text>>, TRUE)

OpenAIMessage(role, content) == [role |-> role, content |-> content]

Last(s) == s[Len(s)]
Front(s) == SubSeq(s, 1, Len(s) - 1)
Tail2(s, n) == SubSeq(s, n + 1, Len(s))

----------------------------------------------------------------------------
(* Persistence store: localStorage item "chatbot_messages_openai" *)

\* The item is absent, or holds a text: the text of an array of messages
\* (kind "array", with its elements), the text null, the text {}, or a text
\* that is no JSON ("garbage").
NoItem == [present |-> FALSE, kind |-> "none", items |-> <<>>]
Item(kind, items) == [present |-> TRUE, kind |-> kind, items |-> items]

\* JSON.stringify of a message array: a key whose value is undefined is left out
JSONstringify(msgs) ==
  Item("array",
       [i \in 1..Len(msgs) |->
          <<msgs[i].role, msgs[i].content, IF msgs[i].error THEN "true" ELSE "none">>])

\* a JavaScript value JSON.parse returns: an array of messages, null or {}
Array(msgs) == [type |-> "array", items |-> msgs]
Null == [type |-> "null", items |-> <<>>]
Object == [type |-> "object", items |-> <<>>]

\* JSON.parse(text): throws on a text that is no JSON
JSONparseThrows(text) == text.kind = "garbage"

\* faulty variant: the error flag of a message is not read back
JSONparseNoFlag(text) ==
  CASE text.kind = "array" ->
         Array([i \in 1..Len(text.items) |->
                  Message(text.items[i][1], text.items[i][2], FALSE)])
    [] text.kind = "null" -> Null
    [] OTHER -> Object

JSONparse(text) ==
  CASE text.kind = "array" ->
         Array([i \in 1..Len(text.items) |->
                  Message(text.items[i][1], text.items[i][2], text.items[i][3] = "true")])
    [] text.kind = "null" -> Null
    [] OTHER -> Object

\* storage.getMessages(): getItem(...) || "[]", parsed; [] when parse throws
getMessages(store) ==
  LET text == IF store.present THEN store ELSE JSONstringify(<<>>) IN
  IF JSONparseThrows(text) THEN Array(<<>>) ELSE JSONparse(text)

storageSaveMessages(msgs) == JSONstringify(msgs)

\* storage.clearMessages()
clearMessages == NoItem

\* faulty variant: nothing is filtered out
saveMessagesUnfiltered(newMessages) == storageSaveMessages(newMessages)

\* useChatbot.saveMessages: system-role entries are filtered out
saveMessages(newMessages) ==
  storageSaveMessages(SelectSeq(newMessages, LAMBDA m : m.role # "system"))

\* snapshots a previous session may have left behind
StoredSnapshots ==
  { NoItem,
    saveMessages(<<UserMessage(<<"hi">>), BotMessage(<<"Hel">>)>>),
    saveMessages(<<UserMessage(<<"hi">>), BotMessage(<<"Hel">>), ErrorMessage(CancelNotice)>>),
    Item("null", <<>>) }

----------------------------------------------------------------------------
(* State *)

VARIABLES
  lifecycle,        \* "created", "rendered" (first render done), "mounted" (its effects ran)
  messages,         \* useState<Message[]>
  loading,          \* useState(false)
  abortController,  \* abortController.current: the identity of the controller
  abortedSignals,   \* the controllers whose signal is aborted
  nextId,           \* identity of the next new AbortController()
  history,          \* the provider's closure variable `messages`
  initPc,           \* init(): "idle", "fetching" the prompt file, "reading" its body, "done"
  pc,               \* sendMessage: "idle", "initiating" (awaiting chatProvider.prompt), "streaming"
  updatedMessages,  \* sendMessage's local updatedMessages
  signal,           \* the controller whose signal the request was given
  hasContent,       \* sendMessage's local hasContent
  assistantMessage, \* prompt's local assistantMessage
  nChunks,          \* content fragments the stream has delivered
  storage,          \* the localStorage item
  timers,           \* pending setTimeout(() => saveMessages(updated), 0) callbacks
  crashed,          \* a state updater threw: the exception reached the rendering layer
  nSends, nAborts, nClears,
  turn,             \* history of the current or last sendMessage call
  calls             \* the calls made on the store and the provider directly

vars == <<lifecycle, messages, loading, abortController, abortedSignals, nextId,
          history, initPc, pc, updatedMessages, signal, hasContent,
          assistantMessage, nChunks, storage, timers, crashed,
          nSends, nAborts, nClears, turn, calls>>

NoTurn ==
  [outcome |-> "none", ending |-> "none",
   aborts |-> 0, abortAt |-> -1, abortPc |-> "none", cleared |-> FALSE,
   delivered |-> <<>>]

\* the hook's state before the first render
Constructed ==
  /\ lifecycle = "created"
  /\ messages = <<>>
  /\ loading = FALSE
  /\ abortController = 1
  /\ abortedSignals = {}
  /\ nextId = 2
  /\ history = <<>>
  /\ initPc = "idle"
  /\ pc = "idle"
  /\ updatedMessages = <<>>
  /\ signal = 0
  /\ hasContent = FALSE
  /\ assistantMessage = <<>>
  /\ nChunks = 0
  /\ timers = <<>>
  /\ crashed = FALSE
  /\ nSends = 0 /\ nAborts = 0 /\ nClears = 0
  /\ turn = NoTurn
  /\ calls = <<>>

Init ==
  /\ Constructed
  /\ storage \in StoredSnapshots

sendVars == <<pc, updatedMessages, signal, hasContent, assistantMessage, nChunks>>
ctrlVars == <<abortController, abortedSignals, nextId>>
countVars == <<nSends, nAborts, nClears>>

----------------------------------------------------------------------------
(* First render and mount *)

\* The first render of useChatbot: useMemo calls createOpenAIProvider, which
\* throws when no API key is configured; nothing in the hook or the component
\* catches it.
Render(apiKey) ==
  /\ lifecycle = "created"
  /\ IF apiKey
     THEN lifecycle' = "rendered" /\ crashed' = crashed
     ELSE lifecycle' = "failed" /\ crashed' = TRUE
  /\ UNCHANGED <<calls, messages, loading, ctrlVars, history, initPc, sendVars,
                 storage, timers, countVars, turn>>

\* useChatbot's rehydration effect, then the component's effect calling init()
\* (savedMessages.length throws on null and is undefined on {}; an effect
\* that throws does not keep the effects after it from running)
Mount ==
  /\ lifecycle = "rendered"
  /\ lifecycle' = "mounted"
  /\ LET savedMessages == getMessages(storage) IN
       /\ crashed' = (savedMessages.type = "null")
       /\ messages' = IF savedMessages.type = "array" /\ Len(savedMessages.items) > 0
                      THEN savedMessages.items
                      ELSE messages
  /\ initPc' = "fetching"
  /\ UNCHANGED <<calls, loading, ctrlVars, history, sendVars, storage, timers,
                 countVars, turn>>

\* faulty variant: the history is not emptied first
providerInitKeeps(hist, initialPrompts) ==
  IF initialPrompts # <<>>
  THEN Append(hist, OpenAIMessage("system", initialPrompts))
  ELSE hist

\* provider init(initialPrompts): messages.length = 0, then the system entry
providerInit(hist, initialPrompts) ==
  LET emptied == SubSeq(hist, 1, 0) IN
  IF initialPrompts # <<>>
  THEN Append(emptied, OpenAIMessage("system", initialPrompts))
  ELSE emptied

\* faulty variant: init() gives up without calling chatProvider.init
InitFetchFailsSkipsInit ==
  /\ initPc = "fetching"
  /\ initPc' = "done"
  /\ UNCHANGED <<calls, lifecycle, messages, loading, ctrlVars, history, sendVars,
                 storage, timers, crashed, countVars, turn>>

\* init(): fetch() rejects or answers with a status that is not ok:
\* initialPrompts stays "", chatProvider.init("") runs in the same job
InitFetchFails ==
  /\ initPc = "fetching"
  /\ initPc' = "done"
  /\ history' = providerInit(history, <<>>)
  /\ UNCHANGED <<calls, lifecycle, messages, loading, ctrlVars, sendVars, storage,
                 timers, crashed, countVars, turn>>

\* init(): fetch() answers ok, the body is awaited
InitFetchOk ==
  /\ initPc = "fetching"
  /\ initPc' = "reading"
  /\ UNCHANGED <<calls, lifecycle, messages, loading, ctrlVars, history, sendVars, storage,
                 timers, crashed, countVars, turn>>

\* init(): res.text() settles (with the empty text when it rejects);
\* chatProvider.init(initialPrompts) resets the provider's history
InitComplete(initialPrompts) ==
  /\ initPc = "reading"
  /\ initPc' = "done"
  /\ history' = providerInit(history, initialPrompts)
  /\ UNCHANGED <<calls, lifecycle, messages, loading, ctrlVars, sendVars, storage,
                 timers, crashed, countVars, turn>>

----------------------------------------------------------------------------
(* Pieces of sendMessage and of the provider *)

\* faulty variant: rejects at limit messages already
LimitReachedInclusive(msgs) == Len(msgs) >= limit

\* the limit check of sendMessage
LimitReached(msgs) == Len(msgs) > limit

\* faulty variant: the error message replaces the list
addErrorMessageReplaces(prev, error) == <<ErrorMessage(getErrorMessage(error))>>

\* addErrorMessage's updater
addErrorMessage(prev, error) == Append(prev, ErrorMessage(getErrorMessage(error)))

\* faulty variant: the placeholder is never removed
PopNothing(prev) == prev

\* faulty variant: a trailing assistant message is removed whatever it holds
PopAnyBot(prev) ==
  IF Len(prev) > 0 /\ Last(prev).role = "assistant" THEN Front(prev) ELSE prev

\* the catch block's updaters: drop a trailing assistant message that is blank
PopEmptyBot(prev) ==
  IF Len(prev) > 0 /\ Last(prev).role = "assistant" /\ trim(Last(prev).content) = <<>>
  THEN Front(prev)
  ELSE prev

\* faulty variant: the chunk is put in front of the content
ApplyChunkPrepend(prev, chunk) ==
  IF Last(prev).role = "assistant"
  THEN [prev EXCEPT ![Len(prev)].content = chunk \o @]
  ELSE prev

\* faulty variant: last.content = chunk
ApplyChunkReplaces(prev, chunk) ==
  IF Last(prev).role = "assistant"
  THEN [prev EXCEPT ![Len(prev)].content = chunk]
  ELSE prev

\* the chunk updater on a non-empty list: last.content += chunk
ApplyChunk(prev, chunk) ==
  IF Last(prev).role = "assistant"
  THEN [prev EXCEPT ![Len(prev)].content = @ \o chunk]
  ELSE prev

\* faulty variant: the chunk is tested without trim()
ChunkHasContentAny(chunk) == chunk # <<>>

\* the content-received test of the read loop
ChunkHasContent(chunk) == trim(chunk) # <<>>

\* the catch block of prompt(): what chatProvider.prompt throws
promptError(aborted, error) ==
  IF aborted THEN Err(AbortText)
  ELSE IF error.isError
  THEN IF error.name = "AbortError" THEN Err(AbortText)
       ELSE IF includes(error.message, "quota") THEN Err(ProviderQuotaText)
       ELSE IF includes(error.message, "rate") THEN Err(ProviderRateText)
       ELSE IF includes(error.message, "api_key") THEN Err(ProviderKeyText)
       ELSE error
  ELSE Err(ProviderUnknownText)

\* sendMessage's test for a cancelled request
IsAbortError(err) == err.isError /\ includes(err.message, "aborted")

\* the pending deferred writes see the mutation of the shared assistant object
Alias(ts, content) ==
  [i \in 1..Len(ts) |->
     IF ts[i].live
     THEN [ts[i] EXCEPT !.msgs = [@ EXCEPT ![Len(@)].content = content]]
     ELSE ts[i]]

\* a new assistant object is created: older deferred writes keep the old one
Freeze(ts) == [i \in 1..Len(ts) |-> [ts[i] EXCEPT !.live = FALSE]]

\* faulty variant: no setLoading(false)
SettledKeepsLoading(msgs, store, outcome, t) ==
  /\ messages' = msgs
  /\ storage' = store
  /\ loading' = loading
  /\ pc' = "idle"
  /\ updatedMessages' = <<>> /\ signal' = 0
  /\ hasContent' = FALSE /\ assistantMessage' = <<>> /\ nChunks' = 0
  /\ turn' = [t EXCEPT !.outcome = outcome]

\* the end of sendMessage: the final state updates, then finally; the locals
\* of the call and of prompt() go out of scope
Settled(msgs, store, outcome, t) ==
  /\ messages' = msgs
  /\ storage' = store
  /\ loading' = FALSE
  /\ pc' = "idle"
  /\ updatedMessages' = <<>> /\ signal' = 0
  /\ hasContent' = FALSE /\ assistantMessage' = <<>> /\ nChunks' = 0
  /\ turn' = [t EXCEPT !.outcome = outcome]

\* the catch block of sendMessage, entered with the message list msgs.
\* Cancelled branch: the updater saves `updated` when it runs, line 285 saves
\* updatedMessages at once; React runs the updater at the call (eagerly) when
\* no update is pending and at the next render otherwise, so either write
\* may be the last.  Other branch: addErrorMessage's updater is queued behind
\* the pop updater and runs after line 285.
Catch(msgs, err, t) ==
  IF IsAbortError(err)
  THEN LET updated == PopEmptyBot(msgs) IN
       \E eager \in BOOLEAN :
         Settled(updated,
                 IF eager THEN saveMessages(updatedMessages) ELSE saveMessages(updated),
                 "cancelled", t)
  ELSE LET updated == addErrorMessage(PopEmptyBot(msgs), err) IN
       Settled(updated, saveMessages(updated), "failed", t)

\* reader.read() returned done: the loop ends
Done(msgs, has, t) ==
  IF ~has
  THEN Catch(msgs, Err(EmptyText), t)
  ELSE Settled(msgs, storage, "success", t)

----------------------------------------------------------------------------
(* User operations *)

\* sendMessage(text), up to its first await: the limit check, then the user
\* message, then chatProvider.prompt up to the completion call.
\* The interface calls it only while loading is false.
SendMessage(text) ==
  /\ lifecycle = "mounted" /\ ~crashed
  /\ pc = "idle"
  /\ nSends + nAborts + nClears < MaxOps
  /\ nSends' = nSends + 1
  /\ IF LimitReached(messages)
     THEN /\ messages' = addErrorMessage(messages, Err(LimitText))
          /\ storage' = saveMessages(messages')
          /\ turn' = [NoTurn EXCEPT !.outcome = "rejected"]
          /\ UNCHANGED <<loading, ctrlVars, history, sendVars>>
     ELSE /\ loading' = TRUE
          /\ abortController' = nextId
          /\ nextId' = nextId + 1
          /\ signal' = nextId
          /\ updatedMessages' = Append(messages, UserMessage(text))
          /\ messages' = updatedMessages'
          /\ history' = Append(history, OpenAIMessage("user", text))
          /\ pc' = "initiating"
          /\ turn' = [NoTurn EXCEPT !.outcome = "inflight"]
          /\ UNCHANGED <<abortedSignals, hasContent, assistantMessage, nChunks,
                         storage>>
  /\ UNCHANGED <<calls, lifecycle, initPc, timers, crashed, nAborts, nClears>>

\* the turn's record of an abort
AbortTurn ==
  IF pc = "idle" THEN turn
  ELSE [turn EXCEPT !.aborts = @ + 1,
                    !.abortAt = IF @ < 0 THEN Len(turn.delivered) ELSE @,
                    !.abortPc = IF @ = "none" THEN pc ELSE @]

\* faulty variant: no cancellation notice
AbortChatMessageSilent ==
  /\ lifecycle = "mounted" /\ ~crashed
  /\ nSends + nAborts + nClears < MaxOps
  /\ nAborts' = nAborts + 1
  /\ abortedSignals' = abortedSignals \cup {abortController}
  /\ abortController' = nextId
  /\ nextId' = nextId + 1
  /\ turn' = AbortTurn
  /\ UNCHANGED <<calls, lifecycle, messages, storage, loading, history, initPc, sendVars,
                 timers, crashed, nSends, nClears>>

\* faulty variant: abort also resets loading
AbortChatMessageStopsLoading ==
  /\ lifecycle = "mounted" /\ ~crashed
  /\ nSends + nAborts + nClears < MaxOps
  /\ nAborts' = nAborts + 1
  /\ abortedSignals' = abortedSignals \cup {abortController}
  /\ abortController' = nextId
  /\ nextId' = nextId + 1
  /\ messages' = Append(messages, ErrorMessage(CancelNotice))
  /\ storage' = saveMessages(messages')
  /\ loading' = FALSE
  /\ turn' = AbortTurn
  /\ UNCHANGED <<calls, lifecycle, history, initPc, sendVars, timers, crashed,
                 nSends, nClears>>

\* faulty variant: the aborted controller is kept
AbortChatMessageKeepsHandle ==
  /\ lifecycle = "mounted" /\ ~crashed
  /\ nSends + nAborts + nClears < MaxOps
  /\ nAborts' = nAborts + 1
  /\ abortedSignals' = abortedSignals \cup {abortController}
  /\ messages' = Append(messages, ErrorMessage(CancelNotice))
  /\ storage' = saveMessages(messages')
  /\ turn' = AbortTurn
  /\ UNCHANGED <<calls, lifecycle, loading, abortController, nextId, history, initPc,
                 sendVars, timers, crashed, nSends, nClears>>

\* abortChatMessage()
AbortChatMessage ==
  /\ lifecycle = "mounted" /\ ~crashed
  /\ nSends + nAborts + nClears < MaxOps
  /\ nAborts' = nAborts + 1
  /\ abortedSignals' = abortedSignals \cup {abortController}
  /\ abortController' = nextId
  /\ nextId' = nextId + 1
  /\ messages' = Append(messages, ErrorMessage(CancelNotice))
  /\ storage' = saveMessages(messages')
  /\ turn' = AbortTurn
  /\ UNCHANGED <<calls, lifecycle, loading, history, initPc, sendVars, timers, crashed,
                 nSends, nClears>>

\* faulty variant: clearing also cancels the request in flight
ClearChatAborts ==
  /\ lifecycle = "mounted" /\ ~crashed
  /\ nSends + nAborts + nClears < MaxOps
  /\ nClears' = nClears + 1
  /\ messages' = <<>>
  /\ storage' = clearMessages
  /\ abortedSignals' = abortedSignals \cup {abortController}
  /\ turn' = IF pc = "idle" THEN turn ELSE [turn EXCEPT !.cleared = TRUE]
  /\ UNCHANGED <<calls, lifecycle, loading, abortController, nextId, history, initPc,
                 sendVars, timers, crashed, nSends, nAborts>>

\* clearChat()
ClearChat ==
  /\ lifecycle = "mounted" /\ ~crashed
  /\ nSends + nAborts + nClears < MaxOps
  /\ nClears' = nClears + 1
  /\ messages' = <<>>
  /\ storage' = clearMessages
  /\ turn' = IF pc = "idle" THEN turn ELSE [turn EXCEPT !.cleared = TRUE]
  /\ UNCHANGED <<calls, lifecycle, loading, ctrlVars, history, initPc, sendVars, timers,
                 crashed, nSends, nAborts>>

\* a deferred write of the chunk updater runs
TimerFires ==
  /\ timers # <<>>
  /\ storage' = saveMessages(Head(timers).msgs)
  /\ timers' = Tail(timers)
  /\ UNCHANGED <<calls, lifecycle, messages, loading, ctrlVars, history, initPc,
                 sendVars, crashed, countVars, turn>>

----------------------------------------------------------------------------
(* Network events of a send *)

\* the completion call resolves: prompt returns the stream, sendMessage
\* appends the assistant placeholder and starts reading
CreateResolves ==
  /\ pc = "initiating"
  /\ signal \notin abortedSignals
  /\ pc' = "streaming"
  /\ assistantMessage' = <<>>
  /\ hasContent' = FALSE
  /\ nChunks' = 0
  /\ messages' = Append(updatedMessages, BotMessage(<<>>))
  /\ timers' = Freeze(timers)
  /\ UNCHANGED <<calls, lifecycle, loading, ctrlVars, history, initPc, updatedMessages,
                 signal, storage, crashed, countVars, turn>>

\* the completion call rejects (with the abort reason once the signal is
\* aborted): prompt throws, sendMessage's catch block and finally run
CreateRejects(error) ==
  /\ pc = "initiating"
  /\ error = AbortReason <=> signal \in abortedSignals
  /\ Catch(messages, promptError(signal \in abortedSignals, error),
           [turn EXCEPT !.ending = IF signal \in abortedSignals
                                   THEN "initabort" ELSE "initfail"])
  /\ UNCHANGED <<calls, lifecycle, ctrlVars, history, initPc, timers, crashed, countVars>>

\* the read loop's body for one chunk: the message list after the updater
\* (the updater throws on an empty list: last is undefined)
Applied(msgs, content) ==
  IF content = <<>> \/ msgs = <<>> THEN msgs ELSE ApplyChunk(msgs, content)

\* the deferred writes after the updater: the mutation shows through the
\* arrays already captured, and the updater schedules a write of its own.
\* A write that would store the same array with the same contents as the
\* pending write before it stores the same text: one of the two is kept.
Scheduled(ts, msgs, content) ==
  IF content = <<>> \/ msgs = <<>> THEN ts
  ELSE LET updated == ApplyChunk(msgs, content)
           live == Last(updated).role = "assistant"
           pending == IF live THEN Alias(ts, Last(updated).content) ELSE ts
           write == [msgs |-> updated, live |-> live]
       IN IF pending # <<>> /\ Last(pending) = write
          THEN pending
          ELSE Append(pending, write)

\* faulty variant: the loop waits for the pending writes before the next read
StreamChunkAwaitsWrite(content, finish) ==
  /\ pc = "streaming"
  /\ timers = <<>>
  /\ signal \notin abortedSignals
  /\ content # <<>> \/ finish = "stop"
  /\ content # <<>> => nChunks < MaxChunks
  /\ crashed' = (crashed \/ (content # <<>> /\ messages = <<>>))
  /\ timers' = Scheduled(timers, messages, content)
  /\ LET has == hasContent \/ (content # <<>> /\ ChunkHasContent(content))
         t == [turn EXCEPT !.delivered = IF content # <<>> THEN Append(@, content) ELSE @]
     IN IF finish = "stop"
        THEN /\ history' = Append(history, OpenAIMessage("assistant", assistantMessage \o content))
             /\ Done(Applied(messages, content), has, [t EXCEPT !.ending = "stop"])
        ELSE /\ history' = history
             /\ messages' = Applied(messages, content)
             /\ nChunks' = nChunks + 1
             /\ assistantMessage' = assistantMessage \o content
             /\ hasContent' = has
             /\ turn' = t
             /\ UNCHANGED <<loading, pc, storage, updatedMessages, signal>>
  /\ UNCHANGED <<calls, lifecycle, ctrlVars, initPc, countVars>>

\* a chunk of the response arrives while the signal is not aborted: content
\* (possibly none) is accumulated and enqueued, the hook applies it;
\* finish_reason "stop" commits the reply to the history and closes
StreamChunk(content, finish) ==
  /\ pc = "streaming"
  /\ signal \notin abortedSignals
  /\ content # <<>> \/ finish = "stop"
  /\ content # <<>> => nChunks < MaxChunks
  /\ crashed' = (crashed \/ (content # <<>> /\ messages = <<>>))
  /\ timers' = Scheduled(timers, messages, content)
  /\ LET has == hasContent \/ (content # <<>> /\ ChunkHasContent(content))
         t == [turn EXCEPT !.delivered = IF content # <<>> THEN Append(@, content) ELSE @]
     IN IF finish = "stop"
        THEN /\ history' = Append(history, OpenAIMessage("assistant", assistantMessage \o content))
             /\ Done(Applied(messages, content), has, [t EXCEPT !.ending = "stop"])
        ELSE /\ history' = history
             /\ messages' = Applied(messages, content)
             /\ nChunks' = nChunks + 1
             /\ assistantMessage' = assistantMessage \o content
             /\ hasContent' = has
             /\ turn' = t
             /\ UNCHANGED <<loading, pc, storage, updatedMessages, signal>>
  /\ UNCHANGED <<calls, lifecycle, ctrlVars, initPc, countVars>>

\* the response ends without a finish_reason "stop" chunk while the signal is
\* not aborted: a non-empty reply is committed, the stream closes
StreamEnd ==
  /\ pc = "streaming"
  /\ signal \notin abortedSignals
  /\ history' = IF assistantMessage # <<>>
                THEN Append(history, OpenAIMessage("assistant", assistantMessage))
                ELSE history
  /\ Done(messages, hasContent, [turn EXCEPT !.ending = "end"])
  /\ UNCHANGED <<calls, lifecycle, ctrlVars, initPc, timers, crashed, countVars>>

\* the response throws while the signal is not aborted: controller.error,
\* reader.read() rejects, sendMessage's catch block runs
StreamThrows(error) ==
  /\ pc = "streaming"
  /\ signal \notin abortedSignals
  /\ Catch(messages, error, [turn EXCEPT !.ending = "error"])
  /\ UNCHANGED <<calls, lifecycle, ctrlVars, history, initPc, timers, crashed, countVars>>

\* faulty variant: the catch block of the producer has no signal test
StreamAbortedErrors(how) ==
  /\ pc = "streaming"
  /\ signal \in abortedSignals
  /\ history' = IF how = "end" /\ assistantMessage # <<>>
                THEN Append(history, OpenAIMessage("assistant", assistantMessage))
                ELSE history
  /\ IF how = "throw"
     THEN Catch(messages, Err(ServerAbortText), [turn EXCEPT !.ending = "aborted"])
     ELSE Done(messages, hasContent, [turn EXCEPT !.ending = "aborted"])
  /\ UNCHANGED <<calls, lifecycle, ctrlVars, initPc, timers, crashed, countVars>>

\* the producer's next step once the signal is aborted: another chunk arrives
\* ("chunk": close, nothing committed), the response ends ("end": a non-empty
\* reply is committed, close) or throws ("throw": close); the reader sees done
StreamAborted(how) ==
  /\ pc = "streaming"
  /\ signal \in abortedSignals
  /\ history' = IF how = "end" /\ assistantMessage # <<>>
                THEN Append(history, OpenAIMessage("assistant", assistantMessage))
                ELSE history
  /\ Done(messages, hasContent, [turn EXCEPT !.ending = "aborted"])
  /\ UNCHANGED <<calls, lifecycle, ctrlVars, initPc, timers, crashed, countVars>>

----------------------------------------------------------------------------
(* Specification *)

NetworkStep ==
  \/ CreateResolves
  \/ \E error \in RawErrors \cup {AbortReason} : CreateRejects(error)
  \/ \E content \in Chunks \cup {<<>>}, finish \in {"stop", "none"} :
       StreamChunk(content, finish)
  \/ StreamEnd
  \/ \E error \in RawErrors : StreamThrows(error)
  \/ \E how \in {"chunk", "end", "throw"} : StreamAborted(how)

Next ==
  \/ \E apiKey \in BOOLEAN : Render(apiKey)
  \/ Mount
  \/ InitFetchFails
  \/ InitFetchOk
  \/ \E initialPrompts \in SystemPrompts : InitComplete(initialPrompts)
  \/ \E text \in UserTexts : SendMessage(text)
  \/ AbortChatMessage
  \/ ClearChat
  \/ TimerFires
  \/ NetworkStep

Spec == Init /\ [][Next]_vars

\* the network answers: the completion call settles and the response stream
\* delivers its next event (in particular it reacts to an aborted signal)
FairSpec == Spec /\ WF_vars(NetworkStep)

----------------------------------------------------------------------------
(* The persistence store and the provider called through their interfaces: *)
(* storage.getMessages, the hook's saveMessages, storage.clearMessages,    *)
(* the provider's init, and the pushes of prompt() onto its history.       *)

\* stored items beyond those a session leaves behind
UnitSnapshots ==
  StoredSnapshots \cup {Item("garbage", <<>>), Item("object", <<>>)}

\* arguments of saveMessages
UnitMessageLists ==
  { <<>>,
    <<Message("system", <<"be brief">>, FALSE), UserMessage(<<"hi">>)>>,
    <<UserMessage(<<"hi">>), Message("system", <<"be brief">>, FALSE),
      ErrorMessage(CancelNotice)>> }

\* arguments of the provider's init
UnitPrompts == SystemPrompts \cup {<<"be kind">>}

Call(op, arg, result) == [op |-> op, arg |-> arg, result |-> result]
Returned == Array(<<>>)
Threw == Null

UnitInit ==
  /\ Constructed
  /\ storage \in UnitSnapshots

unitFrame ==
  <<lifecycle, messages, loading, ctrlVars, initPc, sendVars, timers, crashed,
    countVars, turn>>

UnitGetMessages ==
  /\ Len(calls) < MaxCalls
  /\ calls' = Append(calls, Call("getMessages", Array(<<>>), getMessages(storage)))
  /\ UNCHANGED <<storage, history, unitFrame>>

\* saveMessages(newMessages): newMessages.filter throws on a value that is
\* no array
UnitSaveMessages(newMessages) ==
  /\ Len(calls) < MaxCalls
  /\ IF newMessages.type = "array"
     THEN /\ storage' = saveMessages(newMessages.items)
          /\ calls' = Append(calls, Call("saveMessages", newMessages, Returned))
     ELSE /\ storage' = storage
          /\ calls' = Append(calls, Call("saveMessages", newMessages, Threw))
  /\ UNCHANGED <<history, unitFrame>>

UnitClearMessages ==
  /\ Len(calls) < MaxCalls
  /\ storage' = clearMessages
  /\ calls' = Append(calls, Call("clearMessages", Array(<<>>), Returned))
  /\ UNCHANGED <<history, unitFrame>>

UnitProviderInit(initialPrompts) ==
  /\ Len(calls) < MaxCalls
  /\ history' = providerInit(history, initialPrompts)
  /\ calls' = Append(calls, Call("init", initialPrompts, Returned))
  /\ UNCHANGED <<storage, unitFrame>>

\* prompt() pushes the user entry, its producer pushes the assistant entry
UnitProviderPush(role, content) ==
  /\ Len(calls) < MaxCalls
  /\ history' = Append(history, OpenAIMessage(role, content))
  /\ calls' = Append(calls, Call("push", content, Returned))
  /\ UNCHANGED <<storage, unitFrame>>

\* saveMessages called with what the getMessages() before it returned
UnitSaveLoaded ==
  /\ calls # <<>> /\ Last(calls).op = "getMessages"
  /\ UnitSaveMessages(Last(calls).result)

\* model identifiers; "" is an option or an environment variable not set
ModelIds == {"", "gpt-4o"}

\* getEnvVariable(viteKey, craKey, defaultValue) for a variable holding value
getEnvVariable(value, defaultValue) == IF value # "" THEN value ELSE defaultValue

\* createOpenAIProvider(): the model of every request the provider makes
\* (line 24; line 61 sends it)
createOpenAIProvider(envModel) ==
  LET model == getEnvVariable(envModel, "gpt-4o-mini") IN
  IF model # "" THEN model ELSE "gpt-4o-mini"

\* useChatbot({config}) creates its provider with no argument: config.model
\* is not read
UnitCreateProvider(configModel, envModel) ==
  /\ Len(calls) < MaxCalls
  /\ calls' = Append(calls, Call("createProvider", configModel,
                                 createOpenAIProvider(envModel)))
  /\ UNCHANGED <<storage, history, unitFrame>>

UnitNext ==
  \/ \E configModel \in ModelIds \ {""}, envModel \in ModelIds :
       UnitCreateProvider(configModel, envModel)
  \/ UnitGetMessages
  \/ \E newMessages \in UnitMessageLists : UnitSaveMessages(Array(newMessages))
  \/ UnitSaveLoaded
  \/ UnitClearMessages
  \/ \E initialPrompts \in UnitPrompts : UnitProviderInit(initialPrompts)
  \/ UnitProviderPush("user", <<"hi">>)
  \/ UnitProviderPush("assistant", <<"Hel">>)

UnitSpec == UnitInit /\ [][UnitNext]_vars

----------------------------------------------------------------------------
(* The two classifiers applied to failures: what the session shows for a   *)
(* value thrown by the completion call ("prompt": through the catch block  *)
(* of prompt() and then that of sendMessage), by the response stream       *)
(* ("stream": the catch block of sendMessage) or by sendMessage itself     *)
(* ("limit": addErrorMessage; "empty": thrown inside the try block).       *)

SampleErrors ==
  { Err(KeyRawText), Err(KeyCodeText), Err(QuotaText), Err(RateRawText),
    Err(RateUrlText), [Err(FetchText) EXCEPT !.name = "TypeError"],
    Err(NetworkRawText), Err(TimeoutRawText), Err(ModelRawText),
    Err(ServerAbortText), Err(UnknownRawText), NotAnError }

\* the cancelled branch of the catch block appends no message
NoMessage == ""

\* the catch block of sendMessage: the text of the message it appends
Surfaced(err) == IF IsAbortError(err) THEN NoMessage ELSE getErrorMessage(err)

ClassifyInit ==
  /\ Constructed
  /\ storage = NoItem

ClassifyPrompt(error) ==
  /\ Len(calls) < MaxCalls
  /\ calls' = Append(calls, Call("prompt", error, Surfaced(promptError(FALSE, error))))
  /\ UNCHANGED <<storage, history, unitFrame>>

ClassifyStream(error) ==
  /\ Len(calls) < MaxCalls
  /\ calls' = Append(calls, Call("stream", error, Surfaced(error)))
  /\ UNCHANGED <<storage, history, unitFrame>>

ClassifyLimit ==
  /\ Len(calls) < MaxCalls
  /\ calls' = Append(calls, Call("limit", Err(LimitText), getErrorMessage(Err(LimitText))))
  /\ UNCHANGED <<storage, history, unitFrame>>

ClassifyEmpty ==
  /\ Len(calls) < MaxCalls
  /\ calls' = Append(calls, Call("empty", Err(EmptyText), Surfaced(Err(EmptyText))))
  /\ UNCHANGED <<storage, history, unitFrame>>

\* prompt() finds the signal aborted
ClassifyAborted(error) ==
  /\ Len(calls) < MaxCalls
  /\ calls' = Append(calls, Call("aborted", error, Surfaced(promptError(TRUE, error))))
  /\ UNCHANGED <<storage, history, unitFrame>>

ClassifyNext ==
  \/ \E error \in SampleErrors : ClassifyPrompt(error)
  \/ \E error \in SampleErrors : ClassifyStream(error)
  \/ ClassifyLimit
  \/ ClassifyEmpty
  \/ \E error \in {NotAnError, Err(UnknownRawText)} : ClassifyAborted(error)

ClassifySpec == ClassifyInit /\ [][ClassifyNext]_vars

----------------------------------------------------------------------------
(* Properties *)

RECURSIVE Flatten(_)
\* the concatenation of a sequence of fragments, in order
Flatten(fragments) ==
  IF fragments = <<>> THEN <<>> ELSE Head(fragments) \o Flatten(Tail(fragments))

\* the step in which a sendMessage call settles
Settles == pc # "idle" /\ pc' = "idle"

\* the part of the message list after the first n entries
After(msgs, n) == SubSeq(msgs, n + 1, Len(msgs))

Count(msgs, P(_)) == Cardinality({i \in 1..Len(msgs) : P(msgs[i])})

IsCancelNotice(m) == m = ErrorMessage(CancelNotice)
IsErrorRole(m) == m.role = "error"
IsAssistant(m) == m.role = "assistant"

LimitErrorMessage ==
  ErrorMessage("Voce atingiu o limite de mensagens desta conversa. Limpe o chat para continuar.")

NoSystem(msgs) == SelectSeq(msgs, LAMBDA m : m.role # "system")
RoleContent(msgs) == [i \in 1..Len(msgs) |-> OpenAIMessage(msgs[i].role, msgs[i].content)]

\* C1: a sendMessage call is rejected exactly when the session already holds
\* more than limit messages; a rejected call appends exactly one
\* message-limit-reached error message and issues no completion request
\* (nothing is added to the provider's history, no request is started,
\* loading is untouched); an accepted call starts a request.
C1_LimitCheck ==
  [][ nSends' = nSends + 1 =>
        IF Len(messages) > limit
        THEN /\ messages' = Append(messages, LimitErrorMessage)
             /\ pc' = "idle" /\ history' = history /\ loading' = loading
        ELSE /\ pc' = "initiating" /\ loading'
             /\ Len(history') = Len(history) + 1 ]_vars

C1_Witness ==
  /\ turn.outcome = "rejected"
  /\ Len(messages) > limit + 1
  /\ Last(messages) = LimitErrorMessage
  /\ pc = "idle" /\ ~loading

\* C2 as stated: a stream that delivers n >= 1 fragments and then stops
\* naturally (no abort, no clear during the turn) leaves exactly the user
\* message and one assistant message holding the fragments concatenated in
\* delivery order, and loading goes from true to false.
C2_AnyFragments ==
  [][ ( /\ Settles
        /\ turn'.ending \in {"stop", "end"}
        /\ turn'.aborts = 0 /\ ~turn'.cleared
        /\ turn'.delivered # <<>> )
      => /\ messages' = Append(updatedMessages, BotMessage(Flatten(turn'.delivered)))
         /\ loading /\ ~loading' ]_vars

\* C2 amended: the same, for a stream at least one of whose fragments holds a
\* character that is not white space.
C2_Concatenation ==
  [][ ( /\ Settles
        /\ turn'.ending \in {"stop", "end"}
        /\ turn'.aborts = 0 /\ ~turn'.cleared
        /\ trim(Flatten(turn'.delivered)) # <<>> )
      => /\ messages' = Append(updatedMessages, BotMessage(Flatten(turn'.delivered)))
         /\ loading /\ ~loading' ]_vars

C2_Witness ==
  /\ pc = "idle" /\ ~loading
  /\ turn.outcome = "success" /\ turn.ending \in {"stop", "end"}
  /\ turn.aborts = 0 /\ ~turn.cleared
  /\ turn.delivered = << <<"Hel">>, <<" ">> >>
  /\ Last(messages) = BotMessage(<<"Hel", " ">>)

\* C3: when abort() is invoked once mid-stream after at least one fragment
\* was delivered (and the chat is not cleared), the settled turn's assistant
\* message holds exactly the fragments delivered before the abort, exactly
\* one cancellation notice follows it, directly, and loading is false.
C3_AbortMidStream ==
  [][ ( /\ Settles
        /\ turn'.aborts = 1 /\ turn'.abortAt >= 1 /\ ~turn'.cleared )
      => LET k == Len(updatedMessages) + 1 IN
         /\ Len(messages') > k
         /\ messages'[k] = BotMessage(Flatten(SubSeq(turn'.delivered, 1, turn'.abortAt)))
         /\ messages'[k + 1] = ErrorMessage(CancelNotice)
         /\ Count(After(messages', k), IsCancelNotice) = 1
         /\ ~loading' ]_vars

C3_Witness ==
  /\ pc = "idle" /\ ~loading
  /\ turn.ending = "aborted" /\ turn.aborts = 1 /\ turn.abortAt = 1 /\ ~turn.cleared
  /\ turn.delivered = << <<"Hel">> >>
  /\ Len(messages) >= 2
  /\ messages[Len(messages) - 1] = BotMessage(<<"Hel">>)
  /\ Last(messages) = ErrorMessage(CancelNotice)

\* C4: when abort() is invoked during a send before any fragment arrived
\* (during stream initiation or after the stream was opened) and the chat is
\* not cleared, the settled session holds no assistant message for that turn.
C4_NoOrphanPlaceholder ==
  [][ ( /\ Settles
        /\ turn'.aborts >= 1 /\ turn'.abortAt = 0 /\ ~turn'.cleared )
      => Count(After(messages', Len(updatedMessages)), IsAssistant) = 0 ]_vars

\* C5: a turn ended by one abort() (the chat not cleared) gains exactly one
\* error-role message, the cancellation notice.
C5_NoDoubleReport ==
  [][ ( /\ Settles
        /\ turn'.ending \in {"aborted", "initabort"}
        /\ turn'.aborts = 1 /\ ~turn'.cleared )
      => Count(After(messages', Len(updatedMessages)), IsErrorRole) = 1 ]_vars

\* C6: a stream that completes (finish_reason stop or end of the response,
\* the turn neither aborted nor cleared) without having delivered a fragment
\* ends the send with the empty-completion error message appended after the
\* user message and no assistant message left.
C6_EmptyCompletion ==
  [][ ( /\ Settles
        /\ turn'.ending \in {"stop", "end"}
        /\ turn'.delivered = <<>> /\ ~turn'.cleared )
      => /\ messages' = Append(updatedMessages, ErrorMessage(EmptyText))
         /\ turn'.outcome = "failed" ]_vars

C6_Witness ==
  /\ pc = "idle" /\ turn.outcome = "failed"
  /\ turn.ending \in {"stop", "end"} /\ turn.delivered = <<>> /\ ~turn.cleared
  /\ Last(messages) = ErrorMessage(EmptyText)
  /\ Count(messages, IsAssistant) = 0

\* C7: loading is true exactly while a sendMessage call that passed the limit
\* check has not settled, and neither abort() nor clearChat() changes loading.
C7_LoadingInFlight ==
  /\ [](loading <=> pc # "idle")
  /\ [][ (nAborts' # nAborts \/ nClears' # nClears) => loading' = loading ]_vars

C7_Witness ==
  /\ loading /\ pc = "streaming"
  /\ turn.aborts = 1 /\ nAborts = 1

\* C8: every send that set loading to true eventually sets it to false,
\* given that the network answers (the completion call settles, the stream
\* delivers its next event or reacts to the abort).
C8_LoadingEnds == loading ~> ~loading

C8_Witness ==
  /\ ~loading /\ pc = "idle"
  /\ turn.ending = "aborted" /\ turn.abortPc = "streaming"

\* C9 as stated: when a send fails for a reason other than cancellation
\* after assistant content was received, no assistant message of that turn
\* remains: the turn is the user message and the error message only.
C9_PartialDiscarded ==
  [][ ( /\ Settles
        /\ turn'.outcome = "failed" /\ turn'.aborts = 0 /\ ~turn'.cleared
        /\ turn'.delivered # <<>> )
      => /\ Len(messages') = Len(updatedMessages) + 1
         /\ Last(messages').role = "error" ]_vars

\* C9 amended: such a failure removes the turn's assistant message only when
\* its content is blank; content that is not blank is kept as the turn's
\* assistant message and the error message is appended after it.
C9_OnlyBlankDiscarded ==
  [][ ( /\ Settles
        /\ turn'.outcome = "failed" /\ turn'.aborts = 0 /\ ~turn'.cleared
        /\ turn'.delivered # <<>> )
      => LET content == Flatten(turn'.delivered) IN
         /\ Last(messages').role = "error"
         /\ Front(messages') = IF trim(content) = <<>>
                               THEN updatedMessages
                               ELSE Append(updatedMessages, BotMessage(content)) ]_vars

C9_Witness ==
  /\ pc = "idle" /\ turn.outcome = "failed" /\ turn.ending = "error"
  /\ turn.aborts = 0 /\ ~turn.cleared
  /\ turn.delivered = << <<"Hel">> >>
  /\ Len(messages) >= 2
  /\ messages[Len(messages) - 1] = BotMessage(<<"Hel">>)
  /\ Last(messages).role = "error"

\* C10: at every completion request the messages sent (leaving a system
\* entry aside) are the session's message sequence at that moment, as roles
\* and contents.
C10_PayloadIsSession ==
  [][ (pc = "idle" /\ pc' = "initiating")
      => RoleContent(NoSystem(history')) = RoleContent(NoSystem(messages')) ]_vars

\* C11: when a stream that accumulated at least one fragment terminates, by a
\* natural stop (finish_reason stop or the end of the response) or by
\* cancellation, the provider's history gains in that step exactly one
\* assistant entry holding the accumulated text.
C11_ReplyCommitted ==
  [][ ( /\ Settles
        /\ turn'.ending \in {"stop", "end", "aborted"}
        /\ turn'.delivered # <<>> )
      => history' = Append(history, OpenAIMessage("assistant", Flatten(turn'.delivered))) ]_vars

\* a step that makes a call on the store or the provider directly
Calls(op) == Len(calls') = Len(calls) + 1 /\ Last(calls').op = op
IsSystem(m) == m.role = "system"

\* C12: the provider's init(p) wins over whatever the history held: after it
\* the history is exactly the one system entry holding p when p is not empty,
\* and empty when p is empty; so after two init calls in a row with
\* different texts the history holds at most one system entry, the second
\* call's.
C12_InitWins ==
  [][ Calls("init")
      => LET p == Last(calls').arg IN
         /\ history' = IF p # <<>> THEN <<OpenAIMessage("system", p)>> ELSE <<>>
         /\ Count(history', IsSystem) <= 1 ]_vars

C12_Witness ==
  /\ Len(calls) = 3
  /\ calls[1].op = "push"
  /\ calls[2].op = "init" /\ calls[2].arg = <<"be brief">>
  /\ calls[3].op = "init" /\ calls[3].arg = <<"be kind">>
  /\ history = <<OpenAIMessage("system", <<"be kind">>)>>

\* C13: a write of saveMessages stores no system-role entry, whatever list it
\* is given, and the getMessages() call right after it returns none.
C13_NoSystemStored ==
  [][ /\ Calls("saveMessages") /\ Last(calls').result = Returned
         => /\ storage'.kind = "array"
            /\ \A i \in 1..Len(storage'.items) : storage'.items[i][1] # "system"
      /\ ( /\ Calls("getMessages")
           /\ calls # <<>> /\ Last(calls).op = "saveMessages"
           /\ Last(calls).result = Returned )
         => /\ Last(calls').result.type = "array"
            /\ Count(Last(calls').result.items, IsSystem) = 0 ]_vars

C13_Witness ==
  /\ Len(calls) = 2
  /\ calls[1].op = "saveMessages" /\ Count(calls[1].arg.items, IsSystem) = 1
  /\ calls[2].op = "getMessages"
  /\ calls[2].result = Array(<<UserMessage(<<"hi">>), ErrorMessage(CancelNotice)>>)

C14_LoadSoftFails ==
  [][ (lifecycle = "rendered" /\ lifecycle' = "mounted")
      => LET savedMessages == getMessages(storage) IN
         /\ savedMessages.type = "array"
         /\ ~crashed'
         /\ messages' = savedMessages.items ]_vars

\* C16: clearChat() empties the message list and removes the stored item,
\* and leaves loading, the abort controller (and every signal), the
\* provider's history and the request in flight as they are.
C16_ClearChatFrame ==
  [][ nClears' = nClears + 1
      => /\ messages' = <<>>
         /\ ~storage'.present
         /\ loading' = loading
         /\ abortController' = abortController /\ abortedSignals' = abortedSignals
         /\ history' = history
         /\ pc' = pc /\ signal' = signal ]_vars

C16_Witness ==
  /\ nClears = 1 /\ turn.cleared
  /\ pc = "streaming" /\ loading /\ signal \notin abortedSignals
  /\ messages = <<>> /\ ~storage.present
  /\ history # <<>>

\* C17: when the provider cannot be created for lack of an API key, no
\* exception reaches the rendering layer and the session shows an error-role
\* message.
C17_MissingCredentialReported ==
  [][ (lifecycle = "created" /\ lifecycle' = "failed")
      => /\ ~crashed'
         /\ Count(messages', IsErrorRole) >= 1 ]_vars

\* C18: when the fetch of the prompt file throws or answers with a status
\* that is not ok, init() appends nothing to the session and still calls the
\* provider's init with the empty prompt: the history is empty after it.
C18_InitSoftFails ==
  [][ (initPc = "fetching" /\ initPc' = "done")
      => /\ messages' = messages
         /\ history' = <<>>
         /\ crashed' = crashed ]_vars

\* the fetch failed while a send was in flight: the reset emptied a history
\* that held the send's user entry, the session is as it was
C18_Witness ==
  /\ initPc = "done" /\ history = <<>>
  /\ pc = "initiating" /\ messages # <<>>
  /\ Count(messages, IsErrorRole) = 0

IsPrefix(a, b) == Len(a) <= Len(b) /\ SubSeq(b, 1, Len(a)) = a

\* b is a with the content of its last element, an assistant message, extended
Extended(a, b) ==
  /\ Len(a) >= 1 /\ Len(b) = Len(a)
  /\ Front(b) = Front(a)
  /\ Last(a).role = "assistant"
  /\ Last(b).role = "assistant" /\ Last(b).error = Last(a).error
  /\ IsPrefix(Last(a).content, Last(b).content)

C20_HandleReplaced ==
  /\ [](abortController \notin abortedSignals)
  /\ [][ /\ (nAborts' = nAborts + 1 /\ pc # "idle")
            => /\ signal \in abortedSignals'
               /\ abortedSignals' = abortedSignals \cup {abortController}
               /\ abortController' # abortController
         /\ (pc = "idle" /\ pc' = "initiating")
            => /\ signal' \notin abortedSignals'
               /\ signal' = abortController' ]_vars

C20_Witness ==
  /\ pc = "streaming" /\ turn.aborts = 1
  /\ signal \in abortedSignals
  /\ abortController # signal /\ abortController \notin abortedSignals

\* the category of the taxonomy a failure text belongs to
Taxonomy(text) ==
  CASE text \in {KeyRawText, KeyCodeText} -> "invalid-credential"
    [] text = QuotaText -> "quota-exceeded"
    [] text \in {RateRawText, RateUrlText} -> "rate-limited"
    [] text \in {FetchText, NetworkRawText} -> "network"
    [] text = LimitText -> "message-limit-reached"
    [] text \in {AbortText, ServerAbortText} -> "cancelled"
    [] text = TimeoutRawText -> "timeout"
    [] text = ModelRawText -> "model-unavailable"
    [] text = EmptyText -> "empty-completion"
    [] OTHER -> "unknown"

\* the user-facing texts of a category (a cancelled send may show none: the
\* notice is abort()'s)
Shown(category) ==
  CASE category = "invalid-credential" ->
         {"Chave de API da OpenAI invalida. Verifique sua OPENAI_API_KEY no arquivo .env"}
    [] category = "quota-exceeded" ->
         {"Cota de uso da OpenAI foi excedida. Verifique seu plano ou adicione creditos.",
          "Cota de uso da OpenAI foi excedida. Verifique seu plano ou aguarde."}
    [] category = "rate-limited" ->
         {"Muitas requisicoes. Aguarde um momento antes de tentar novamente."}
    [] category = "network" ->
         {"Erro de conexao. Verifique sua internet e tente novamente."}
    [] category = "message-limit-reached" ->
         {"Voce atingiu o limite de mensagens desta conversa. Limpe o chat para continuar."}
    [] category = "cancelled" -> {"Mensagem cancelada pelo usuario.", ""}
    [] category = "timeout" ->
         {"A requisicao demorou muito para responder. Tente novamente."}
    [] category = "model-unavailable" ->
         {"Modelo especificado nao existe ou voce nao tem acesso a ele."}
    [] category = "empty-completion" -> {"Nenhuma resposta foi gerada pelo modelo"}
    [] OTHER -> {}

C22_ConfigModelSent ==
  [][ Calls("createProvider") => Last(calls').result = Last(calls').arg ]_vars

\* C23: sendMessage appends the empty assistant placeholder before it
\* requests the stream: when the request is made the last message of the
\* session is the placeholder, and a request that fails finds it there.
C23_PlaceholderBeforeRequest ==
  [][ /\ (pc = "idle" /\ pc' = "initiating") => Last(messages') = BotMessage(<<>>)
      /\ (pc = "initiating" /\ pc' = "idle" /\ turn.aborts = 0 /\ ~turn.cleared)
           => Last(messages) = BotMessage(<<>>) ]_vars

\* C24: once a send has settled and no deferred write is pending, the stored
\* item reads back as the message list of the session (without system
\* entries).
C24_SnapshotMirrors ==
  ( /\ pc = "idle" /\ timers = <<>>
    /\ turn.outcome \in {"success", "failed", "cancelled"} )
  => getMessages(storage) = getMessages(saveMessages(messages))

\* C25 as stated: every chunk that is not empty sets the content-received
\* flag, so a stream that ends after delivering a chunk, even one made of
\* white space only, is not treated as an empty completion.
C25_FlagAnyChunk ==
  [][ /\ ( /\ pc = "streaming" /\ pc' = "streaming"
           /\ Len(turn'.delivered) > Len(turn.delivered) )
         => hasContent'
      /\ ( /\ pc = "streaming" /\ Settles
           /\ turn'.ending \in {"stop", "end", "aborted"}
           /\ turn'.delivered # <<>> )
         => turn'.outcome = "success" ]_vars

\* C25 amended: a chunk sets the content-received flag when it holds a
\* character that is not white space; a stream that ends is treated as an
\* empty completion exactly when no such chunk was received, and otherwise
\* settles as a success whose assistant message (when the chat was not
\* cleared) holds all the delivered text, white space included.
C25_FlagVisibleChunk ==
  [][ /\ ( /\ pc = "streaming" /\ pc' = "streaming"
           /\ Len(turn'.delivered) > Len(turn.delivered) )
         => hasContent' = (hasContent \/ trim(Last(turn'.delivered)) # <<>>)
      /\ ( /\ pc = "streaming" /\ Settles
           /\ turn'.ending \in {"stop", "end", "aborted"} )
         => /\ turn'.outcome = IF trim(Flatten(turn'.delivered)) = <<>>
                               THEN "failed" ELSE "success"
            /\ (turn'.outcome = "success" /\ ~turn'.cleared)
                 => \E i \in 1..Len(messages') :
                      messages'[i] = BotMessage(Flatten(turn'.delivered)) ]_vars

C25_Witness ==
  /\ pc = "idle" /\ ~loading
  /\ turn.outcome = "success" /\ turn.ending \in {"stop", "end"}
  /\ turn.delivered = << <<" ">>, <<"Hel">> >>
  /\ Last(messages) = BotMessage(<<" ", "Hel">>)

\* C26: once the signal of the stream is aborted the producer emits no
\* further fragment (nothing is delivered, accumulated or scheduled), and its
\* next step closes the stream: the reader sees done, never a rejection, so
\* the send ends as a completed stream (success, or the empty-completion
\* error when no content was received), not through the stream-error path.
C26_ProducerStops ==
  [][ (pc = "streaming" /\ signal \in abortedSignals)
      => /\ turn'.delivered = turn.delivered
         /\ assistantMessage' \in {assistantMessage, <<>>}
         /\ pc' # "streaming"
              => /\ turn'.ending = "aborted"
                 /\ timers' = timers
                 /\ IF hasContent
                    THEN turn'.outcome = "success" /\ messages' = messages
                    ELSE /\ turn'.outcome = "failed"
                         /\ messages' = addErrorMessage(PopEmptyBot(messages),
                                                        Err(EmptyText)) ]_vars

C26_Witness ==
  /\ pc = "idle" /\ ~loading
  /\ turn.ending = "aborted" /\ turn.abortPc = "streaming" /\ turn.aborts = 1
  /\ turn.outcome = "failed" /\ turn.delivered = <<>>
  /\ Len(messages) >= 2
  /\ messages[Len(messages) - 1] = ErrorMessage(CancelNotice)
  /\ Last(messages).role = "error" /\ Last(messages) # ErrorMessage(CancelNotice)

\* C27: stream consumption never waits for a storage write.  While the
\* stream is open and not aborted the next chunk can be read and applied
\* whatever writes are pending, and the step that applies a chunk performs no
\* write itself: the stored item is unchanged and the writes that were
\* pending are still pending.
C27_WritesNeverBlock ==
  ( /\ pc = "streaming" /\ signal \notin abortedSignals
    /\ nChunks < MaxChunks )
  => \A content \in Chunks :
       ENABLED ( /\ StreamChunk(content, "none")
                 /\ storage' = storage
                 /\ Len(timers') >= Len(timers) )

C27_Witness ==
  /\ pc = "streaming" /\ ~crashed
  /\ Len(turn.delivered) = 2
  /\ timers # <<>>
  /\ storage = NoItem
  /\ Last(messages) = BotMessage(Flatten(turn.delivered))

\* C28: abort() invoked while loading is false (no send in flight) leaves
\* the message list and the stored item unchanged.
C28_AbortIdleNoEffect ==
  [][ (nAborts' = nAborts + 1 /\ ~loading)
      => messages' = messages /\ storage' = storage ]_vars

\* C29: once clearChat() has run during a send, no message created before
\* it is in the session or in the stored item again.  The user message of
\* the send in flight was created before the clear, and no user message is
\* created until the next send: from the clear to the next send neither the
\* session nor the stored item holds a user message.
C29_ClearedStaysCleared ==
  turn.cleared
  => /\ \A i \in 1..Len(messages) : messages[i].role # "user"
     /\ \A i \in 1..Len(getMessages(storage).items) :
          getMessages(storage).items[i].role # "user"

\* C30: a storage write never replaces a stored item written from a newer
\* state of the session by one captured from an older state.  Error-role
\* messages (the cancellation notice, the error message) are never removed
\* from a session except by clearChat(), so a newer state holds at least the
\* error-role messages of an older one: a write other than clearChat's never
\* leaves fewer error-role entries in the stored item than it found.
C30_WritesInOrder ==
  [][ (nClears' = nClears /\ storage' # storage)
      => LET before == getMessages(storage).items
             after == getMessages(storage').items
         IN Cardinality({i \in 1..Len(after) : after[i].role = "error"})
              >= Cardinality({i \in 1..Len(before) : before[i].role = "error"}) ]_vars

\* C31: whenever a chunk read from the stream is applied, the message list is
\* not empty and ends with the assistant message of the turn; the updater
\* does not fail, and while the stream stays open that message holds every
\* fragment delivered so far.
C31_ChunkHitsPlaceholder ==
  [][ ( /\ pc = "streaming"
        /\ Len(turn'.delivered) > Len(turn.delivered) )
      => /\ messages # <<>>
         /\ Last(messages).role = "assistant"
         /\ crashed' = crashed
         /\ pc' = "streaming"
              => Last(messages') = BotMessage(Flatten(turn'.delivered)) ]_vars

\* C32: once the provider's history starts with the system prompt it keeps
\* starting with it, so every later request (whose payload is the history)
\* carries it first; and the step in which init() completes with a prompt
\* that is not empty erases nothing of a send made before it: the entries
\* that are not system entries are kept.
C32_InitKeepsHistory ==
  [][ /\ (history # <<>> /\ Head(history).role = "system")
           => (history' # <<>> /\ Head(history') = Head(history))
      /\ ( /\ initPc = "reading" /\ initPc' = "done"
           /\ history' # <<>> /\ Head(history').role = "system" )
           => SelectSeq(history', LAMBDA m : m.role # "system")
                = SelectSeq(history, LAMBDA m : m.role # "system") ]_vars

\* C33: the provider's history is an optional system entry followed by
\* user and assistant entries that alternate strictly, starting with user.
C33_HistoryAlternates ==
  LET body == IF history # <<>> /\ Head(history).role = "system"
              THEN Tail(history) ELSE history
  IN \A i \in 1..Len(body) :
       body[i].role = IF i % 2 = 1 THEN "user" ELSE "assistant"

\* C34: the limit rejection is stable.  While no send is in flight and the
\* limit is reached, every step other than clearChat() leaves it so; and a
\* sendMessage made in that situation is rejected: the limit message is
\* appended, no request is made (the provider's history is untouched) and
\* loading stays false.
C34_RejectionStable ==
  [][ (pc = "idle" /\ LimitReached(messages) /\ nClears' = nClears)
      => /\ pc' = "idle" /\ LimitReached(messages')
         /\ nSends' = nSends + 1
              => /\ messages' = Append(messages, LimitErrorMessage)
                 /\ turn'.outcome = "rejected"
                 /\ history' = history
                 /\ ~loading' ]_vars

C34_Witness ==
  /\ nSends = 2 /\ nClears = 0
  /\ turn.outcome = "rejected"
  /\ pc = "idle" /\ ~loading
  /\ Len(messages) > limit + 2
  /\ messages[Len(messages) - 1] = LimitErrorMessage
  /\ Last(messages) = LimitErrorMessage
  /\ history = <<>>

====
